---- MODULE Spec2Model ----
(***************************************************************************)
(* Model of utils/generate_backend_completeness.py: the reflection-driven  *)
(* comparator that builds one method-by-backend presence matrix per        *)
(* narwhals class and writes it into a markdown document.                  *)
(*                                                                         *)
(* The narwhals library that the script introspects is the input: it is    *)
(* the variable lib, drawn in Init from a bounded universe of libraries.   *)
(* Strings are TLA+ strings; every operation that looks inside a string    *)
(* (ordering, startswith, endswith, lower, capitalize, replace) is         *)
(* computed on the string's code points (Codes).                           *)
(***************************************************************************)
EXTENDS Integers, Sequences, FiniteSets, TLC

VARIABLES
    lib,                \* the importable narwhals modules (canonical and per backend)
    template_exists,    \* whether TEMPLATE_PATH can be opened
    pc,                 \* position of get_backend_completeness_table
    mi,                 \* index in MODULES of the module being processed
    classes_,           \* class names of the current module still to be visited
    results,            \* frames accumulated for the current module
    processed_classes,  \* frame classes already rendered for the current module
    nw_class_name,      \* class visited last in the current module ("" before the first)
    nw_methods,         \* get_class_methods of that class
    backend_methods,    \* per backend, the frame built from parse_module for that class
    docs,               \* files under DESTINATION_PATH: file name -> rendered document
    writes,             \* trace of the files written, in order
    error               \* the exception that ended the run ("" while none)

vars == <<lib, template_exists, pc, mi, classes_, results, processed_classes,
          nw_class_name, nw_methods, backend_methods, docs, writes, error>>

-----------------------------------------------------------------------------
(* Strings.                                                                *)

\* Code points of every string the model inspects.
Codes ==
    "_" :> <<95>> @@
    "__doc__" :> <<95, 95, 100, 111, 99, 95, 95>> @@
    "a" :> <<97>> @@
    "b" :> <<98>> @@
    "head" :> <<104, 101, 97, 100>> @@
    "implementation" :> <<105, 109, 112, 108, 101, 109, 101, 110, 116, 97, 116, 105, 111, 110>> @@
    "pipe" :> <<112, 105, 112, 101>> @@
    "tail" :> <<116, 97, 105, 108>> @@
    "to_native" :> <<116, 111, 95, 110, 97, 116, 105, 118, 101>> @@
    "arrow" :> <<97, 114, 114, 111, 119>> @@
    "narwhals" :> <<110, 97, 114, 119, 104, 97, 108, 115>> @@
    "polars" :> <<112, 111, 108, 97, 114, 115>> @@
    "spark-like" :> <<115, 112, 97, 114, 107, 45, 108, 105, 107, 101>> @@
    "Method" :> <<77, 101, 116, 104, 111, 100>> @@
    "dataframe" :> <<100, 97, 116, 97, 102, 114, 97, 109, 101>> @@
    "expr_str" :> <<101, 120, 112, 114, 95, 115, 116, 114>> @@
    "lazyframe" :> <<108, 97, 122, 121, 102, 114, 97, 109, 101>> @@
    "Dataframe" :> <<68, 97, 116, 97, 102, 114, 97, 109, 101>> @@
    "Expr.str" :> <<69, 120, 112, 114, 46, 115, 116, 114>> @@
    "BaseFrame" :> <<66, 97, 115, 101, 70, 114, 97, 109, 101>> @@
    "DataFrame" :> <<68, 97, 116, 97, 70, 114, 97, 109, 101>> @@
    "LazyFrame" :> <<76, 97, 122, 121, 70, 114, 97, 109, 101>> @@
    "Series" :> <<83, 101, 114, 105, 101, 115>> @@
    "ArrowDataFrame" :> <<65, 114, 114, 111, 119, 68, 97, 116, 97, 70, 114, 97, 109, 101>> @@
    "ArrowSeries" :> <<65, 114, 114, 111, 119, 83, 101, 114, 105, 101, 115>> @@
    "CompliantDataFrame" :> <<67, 111, 109, 112, 108, 105, 97, 110, 116, 68, 97, 116, 97, 70, 114, 97, 109, 101>> @@
    "DaskLazyFrame" :> <<68, 97, 115, 107, 76, 97, 122, 121, 70, 114, 97, 109, 101>> @@
    "DuckDBInterchangeSeries" :> <<68, 117, 99, 107, 68, 66, 73, 110, 116, 101, 114, 99, 104, 97, 110, 103, 101, 83, 101, 114, 105, 101, 115>> @@
    "PandasLikeDataFrame" :> <<80, 97, 110, 100, 97, 115, 76, 105, 107, 101, 68, 97, 116, 97, 70, 114, 97, 109, 101>> @@
    "Compliant" :> <<67, 111, 109, 112, 108, 105, 97, 110, 116>> @@
    "DuckDBInterchange" :> <<68, 117, 99, 107, 68, 66, 73, 110, 116, 101, 114, 99, 104, 97, 110, 103, 101>>

\* Python's str ordering: lexicographic on code points.
StrLess(s, t) ==
    LET a == Codes[s]
        b == Codes[t]
        n == IF Len(a) < Len(b) THEN Len(a) ELSE Len(b)
        diff == {i \in 1..n : a[i] # b[i]}
    IN  IF diff = {}
        THEN Len(a) < Len(b)
        ELSE LET i == CHOOSE k \in diff : \A j \in diff : k <= j
             IN  a[i] < b[i]

\* str.startswith
StartsWith(s, prefix) ==
    LET a == Codes[s]
        p == Codes[prefix]
    IN  Len(p) <= Len(a) /\ SubSeq(a, 1, Len(p)) = p

\* str.endswith
EndsWith(s, suffix) ==
    LET a == Codes[s]
        p == Codes[suffix]
    IN  Len(p) <= Len(a) /\ SubSeq(a, Len(a) - Len(p) + 1, Len(a)) = p

\* The string with the given code points.
Decode(cs) == CHOOSE s \in DOMAIN Codes : Codes[s] = cs

LowerCode(c) == IF c >= 65 /\ c <= 90 THEN c + 32 ELSE c

UpperCode(c) == IF c >= 97 /\ c <= 122 THEN c - 32 ELSE c

\* str.lower
Lower(s) == Decode([i \in 1..Len(Codes[s]) |-> LowerCode(Codes[s][i])])

\* str.capitalize().replace("_", "."): first character upper-cased, the rest
\* lower-cased, then every underscore (95) replaced by a dot (46).
CapitalizeReplace(s) ==
    LET a == Codes[s]
        cap == [i \in 1..Len(a) |-> IF i = 1 THEN UpperCode(a[i]) ELSE LowerCode(a[i])]
    IN  Decode([i \in 1..Len(a) |-> IF cap[i] = 95 THEN 46 ELSE cap[i]])

\* sorted(): ascending by StrLess.
Sorted(seq) == SortSeq(seq, StrLess)

RECURSIVE SortedSet(_)
\* The elements of a set of strings as an ascending list.
SortedSet(S) ==
    IF S = {} THEN <<>>
    ELSE LET m == CHOOSE x \in S : \A y \in S \ {x} : StrLess(x, y)
         IN  <<m>> \o SortedSet(S \ {m})

Elems(seq) == {seq[i] : i \in 1..Len(seq)}

RECURSIVE Unique(_)
\* The distinct elements of a list in order of first appearance.
Unique(seq) ==
    IF seq = <<>> THEN <<>>
    ELSE LET init == Unique(SubSeq(seq, 1, Len(seq) - 1))
             last == seq[Len(seq)]
         IN  IF last \in Elems(init) THEN init ELSE Append(init, last)

RECURSIVE Concat(_)
\* pl.concat / itertools.chain: the lists of a list joined end to end.
Concat(seqs) ==
    IF seqs = <<>> THEN <<>> ELSE Head(seqs) \o Concat(Tail(seqs))

-----------------------------------------------------------------------------
(* Registry.                                                               *)

\* The registry entries the model runs: the first module of the source's list
\* and the one module parse_module treats specially.
MODULES == <<"dataframe", "expr_str">>

\* Two of the source's five backends: one whose name sorts before "polars"
\* and one whose name sorts after it.
BACKENDS ==
    << [name |-> "arrow", module |-> "_arrow", type_ |-> "EAGER"],
       [name |-> "spark-like", module |-> "_spark_like", type_ |-> "LAZY"] >>

EXCLUDE_CLASSES == {"BaseFrame", "Then", "When"}

DIRECTLY_IMPLEMENTED_METHODS == <<"pipe", "implementation", "to_native">>

EXPR_STR_METHODS == <<"tail", "head">>

\* Cell values of the matrix.
CHECK == ":white_check_mark:"

CROSS == ":x:"

NULL == "null"

-----------------------------------------------------------------------------
(* Reflection.  A class is a function from member names to member kinds;   *)
(* a module is [found, classes]: whether it can be imported, and its       *)
(* classes by name (each class is bound in its module under its own        *)
(* __name__).                                                              *)

FUNCTION == "function"

NOT_IMPLEMENTED == "not_implemented"

\* inspect.getmembers: the member names in ascending order.
GetMembers(obj) == SortedSet(DOMAIN obj)

\* get_class_methods
get_class_methods(kls) ==
    SelectSeq(GetMembers(kls), LAMBDA name : ~StartsWith(name, "_"))

\* Faulty variant: the not_implemented test is left out.
iter_implemented_methods_unfiltered(tp) ==
    SelectSeq(GetMembers(tp), LAMBDA name : ~StartsWith(name, "_"))

\* iter_implemented_methods
iter_implemented_methods(tp) ==
    SelectSeq(GetMembers(tp),
              LAMBDA name : ~StartsWith(name, "_") /\ tp[name] # NOT_IMPLEMENTED)

\* The predicate parse_module hands to inspect.getmembers.
ClassPredicate(name, cls_name) ==
    /\ EndsWith(name, cls_name)
    /\ ~StartsWith(name, "Compliant")
    /\ ~StartsWith(name, "DuckDBInterchange")

\* class_ in parse_module: the classes of a backend module that pass the
\* predicate, in ascending name order.
MatchingClasses(module_, cls_name) ==
    SelectSeq(GetMembers(module_.classes), LAMBDA name : ClassPredicate(name, cls_name))

\* Faulty variant: the always-implemented names are added before the import,
\* so they are returned for a backend module that does not exist too.
parse_module_eager_extend(module_name, backend, cls_name) ==
    LET module_ == lib.back[backend][module_name]
    IN  IF ~module_.found THEN DIRECTLY_IMPLEMENTED_METHODS
        ELSE LET class_ == MatchingClasses(module_, cls_name)
             IN  IF class_ = <<>> THEN DIRECTLY_IMPLEMENTED_METHODS
                 ELSE DIRECTLY_IMPLEMENTED_METHODS
                      \o iter_implemented_methods(module_.classes[class_[1]])
                      \o (IF module_name = "expr_str" THEN EXPR_STR_METHODS ELSE <<>>)

\* Faulty variant: the string-expression extras are never added.
parse_module_no_extras(module_name, backend, cls_name) ==
    LET module_ == lib.back[backend][module_name]
    IN  IF ~module_.found THEN <<>>
        ELSE LET class_ == MatchingClasses(module_, cls_name)
             IN  IF class_ = <<>> THEN <<>>
                 ELSE iter_implemented_methods(module_.classes[class_[1]])
                      \o DIRECTLY_IMPLEMENTED_METHODS

\* Faulty variant: the last matching class is reflected on, not the first.
parse_module_last_class(module_name, backend, cls_name) ==
    LET module_ == lib.back[backend][module_name]
    IN  IF ~module_.found THEN <<>>
        ELSE LET class_ == MatchingClasses(module_, cls_name)
             IN  IF class_ = <<>> THEN <<>>
                 ELSE iter_implemented_methods(module_.classes[class_[Len(class_)]])
                      \o DIRECTLY_IMPLEMENTED_METHODS
                      \o (IF module_name = "expr_str" THEN EXPR_STR_METHODS ELSE <<>>)

\* parse_module(module_name, backend, nw_class_name)
parse_module(module_name, backend, cls_name) ==
    LET module_ == lib.back[backend][module_name]
    IN  IF ~module_.found THEN <<>>          \* ModuleNotFoundError, suppressed
        ELSE LET class_ == MatchingClasses(module_, cls_name)
             IN  IF class_ = <<>> THEN <<>>
                 ELSE iter_implemented_methods(module_.classes[class_[1]])
                      \o DIRECTLY_IMPLEMENTED_METHODS
                      \o (IF module_name = "expr_str" THEN EXPR_STR_METHODS ELSE <<>>)

-----------------------------------------------------------------------------
(* Frames and the matrix.  A frame is a list of rows [Backend, Method]; a  *)
(* table is [columns, rows], each row a function from column name to cell. *)

\* pl.DataFrame({"Backend": backend, "Method": methods}): the scalar is
\* broadcast over the list, so an empty list gives a frame without rows.
DataFrame(backend, methods) ==
    [i \in 1..Len(methods) |-> [Backend |-> backend, Method |-> methods[i]]]

\* .pivot(on="Backend", values="supported", index=["Method"],
\*        aggregate_function="first"), after supported is set on every row:
\* one column per Backend value that occurs, one row per Method that occurs.
Pivot(long) ==
    LET on == Unique([i \in 1..Len(long) |-> long[i].Backend])
        index == Unique([i \in 1..Len(long) |-> long[i].Method])
        cols == <<"Method">> \o on
    IN  [columns |-> cols,
         rows |-> [i \in 1..Len(index) |->
                    [c \in Elems(cols) |->
                        IF c = "Method" THEN index[i]
                        ELSE IF \E k \in 1..Len(long) :
                                    long[k].Backend = c /\ long[k].Method = index[i]
                             THEN CHECK ELSE NULL]]]

\* Faulty variant: no row is dropped.
FilterNothing(t) == t

\* .filter(pl.col("narwhals").is_not_null())
FilterCanonical(t) ==
    [t EXCEPT !.rows = SelectSeq(t.rows, LAMBDA r : r["narwhals"] # NULL)]

\* .drop("narwhals")
DropCanonical(t) ==
    LET cols == SelectSeq(t.columns, LAMBDA c : c # "narwhals")
    IN  [columns |-> cols,
         rows |-> [i \in 1..Len(t.rows) |-> [c \in Elems(cols) |-> t.rows[i][c]]]]

\* Faulty variant: null cells are left as they are.
FillNothing(t) == t

\* .fill_null(":x:")
FillNull(t) ==
    [t EXCEPT !.rows = [i \in 1..Len(t.rows) |->
        [c \in DOMAIN t.rows[i] |-> IF t.rows[i][c] = NULL THEN CROSS ELSE t.rows[i][c]]]]

\* .sort("Method")
SortByMethod(t) ==
    [t EXCEPT !.rows = SortSeq(t.rows, LAMBDA r, q : StrLess(r["Method"], q["Method"]))]

\* Faulty variant: the columns are selected in the order of the list, unsorted.
SelectedColumnsUnsorted(t) ==
    <<"Method">> \o SelectSeq(t.columns, LAMBDA c : c # "Method") \o <<"polars">>

\* backends = [c for c in results.columns if c != "Method"] + ["polars"]
\* .select("Method", *sorted(backends))
SelectedColumns(t) ==
    <<"Method">> \o Sorted(SelectSeq(t.columns, LAMBDA c : c # "Method") \o <<"polars">>)

\* Faulty variant: polars is marked present only where every backend is.
PolarsCellFromBackends(row) ==
    IF \A c \in DOMAIN row \ {"Method"} : row[c] = CHECK THEN CHECK ELSE CROSS

\* The value of the synthetic polars column in a row.
PolarsCell(row) == CHECK

\* .with_columns(polars=pl.lit(":white_check_mark:")).select(...)
WithPolars(t) ==
    LET cols == SelectedColumns(t)
    IN  [columns |-> cols,
         rows |-> [i \in 1..Len(t.rows) |->
                    [c \in Elems(cols) |->
                        IF c = "polars" THEN PolarsCell(t.rows[i]) ELSE t.rows[i][c]]]]

\* The frame render_table_and_write_to_output prints.
Matrix(frames) ==
    WithPolars(SortByMethod(FillNull(DropCanonical(FilterCanonical(Pivot(Concat(frames)))))))

\* What makes render_table_and_write_to_output raise: pl.concat of an empty
\* list (ValueError), no "narwhals" column after the pivot
\* (ColumnNotFoundError), or no template file (FileNotFoundError).
RenderError(frames) ==
    IF frames = <<>> THEN "ValueError"
    ELSE IF "narwhals" \notin Elems(Pivot(Concat(frames)).columns) THEN "ColumnNotFoundError"
    ELSE IF ~template_exists THEN "FileNotFoundError"
    ELSE ""

\* The document written: the template with its two placeholders filled.
Document(frames, title) == [title |-> title, backend_table |-> Matrix(frames)]

-----------------------------------------------------------------------------
(* The libraries the run is checked against.                               *)

\* Most classes a canonical module holds in the libraries that vary the class list.
MaxNwClasses == 3

\* Most classes a backend module holds in the libraries that vary the backend side.
MaxBackendClasses == 2

ModuleNames == Elems(MODULES)

BackendModules == {BACKENDS[i].module : i \in 1..Len(BACKENDS)}

\* A module that cannot be imported.
NotFound == [found |-> FALSE, classes |-> [n \in {} |-> [m \in {} |-> FUNCTION]]]

\* The importable modules holding at most max classes, named from names and
\* taken from class_objects.
ModulesOf(names, class_objects, max) ==
    {[found |-> TRUE, classes |-> f] :
        f \in UNION {[S -> class_objects] :
                        S \in {T \in SUBSET names : Cardinality(T) <= max}}}

\* Every class has private members; public ones are given by kinds.
ClassOf(kinds) == [n \in {"__doc__"} \cup DOMAIN kinds |->
                     IF n = "__doc__" THEN FUNCTION ELSE kinds[n]]

\* Canonical classes: at least one public method, none of them a placeholder.
CanonClasses ==
    {ClassOf([n \in S |-> FUNCTION]) : S \in (SUBSET {"a", "b", "pipe"}) \ {{}}}

PlainClass == ClassOf([n \in {"a"} |-> FUNCTION])

\* Backend classes: each public member implemented or a not_implemented placeholder.
BackendClasses ==
    {ClassOf(k) : k \in UNION {[S -> {FUNCTION, NOT_IMPLEMENTED}] : S \in SUBSET {"a", "pipe"}}}

SmallBackendClasses ==
    {ClassOf(k) : k \in UNION {[S -> {FUNCTION, NOT_IMPLEMENTED}] : S \in SUBSET {"a"}}}

NwClassNames == {"BaseFrame", "DataFrame", "LazyFrame", "Series"}

BackendClassNames ==
    {"ArrowDataFrame", "PandasLikeDataFrame", "CompliantDataFrame", "DuckDBInterchangeSeries"}

AllNotFound == [b \in BackendModules |-> NotFound]

\* What one registry entry resolves to: the canonical module and, per backend,
\* the backend's module of the same name.
\* (1) Libraries that vary the class list of the canonical module.
WideEnvs ==
    {[canon |-> NotFound, back |-> AllNotFound]}
    \cup
    {[canon |-> c, back |-> bk] :
        c \in ModulesOf(NwClassNames, {PlainClass}, MaxNwClasses),
        bk \in [BackendModules ->
                 {NotFound,
                  [found |-> TRUE,
                   classes |-> [n \in {"ArrowDataFrame", "DaskLazyFrame"} |-> PlainClass]]}]}

\* (2) Libraries that vary one backend's module.
DeepBackendEnvs ==
    {[canon |-> [found |-> TRUE,
                 classes |-> [n \in {"DataFrame", "Series"} |->
                                ClassOf([k \in {"a", "pipe"} |-> FUNCTION])]],
      back |-> [b \in BackendModules |-> IF b = rich THEN m ELSE NotFound]] :
        rich \in BackendModules,
        m \in {NotFound} \cup ModulesOf(BackendClassNames, BackendClasses, MaxBackendClasses)}

\* (3) Libraries that vary the canonical methods against both backends: one or
\* two canonical classes, at most one class per backend module.
DeepMatrixEnvs ==
    {[canon |-> c, back |-> bk] :
        c \in ModulesOf({"DataFrame", "Series"}, CanonClasses, 2),
        bk \in [BackendModules ->
                 {NotFound} \cup
                 ModulesOf({"ArrowDataFrame", "ArrowSeries"}, SmallBackendClasses, 1)]}

PlainEnv ==
    [canon |-> [found |-> TRUE, classes |-> [n \in {"Series"} |-> PlainClass]],
     back |-> AllNotFound]

\* The library in which registry entry i resolves to envs[i].
LibOf(envs) ==
    [canon |-> [m \in ModuleNames |->
                  envs[CHOOSE i \in 1..Len(MODULES) : MODULES[i] = m].canon],
     back |-> [b \in BackendModules |->
                 [m \in ModuleNames |->
                    envs[CHOOSE i \in 1..Len(MODULES) : MODULES[i] = m].back[b]]]]

Libraries ==
    {LibOf(envs) : envs \in [1..Len(MODULES) -> WideEnvs]}
    \cup
    {LibOf([j \in 1..Len(MODULES) |-> IF j = i THEN e ELSE PlainEnv]) :
        i \in 1..Len(MODULES), e \in DeepBackendEnvs \cup DeepMatrixEnvs}

-----------------------------------------------------------------------------
(* get_backend_completeness_table.                                         *)

module_name == MODULES[mi]

FRAME_CLASSES == {"DataFrame", "LazyFrame"}

Init ==
    /\ lib \in Libraries
    /\ template_exists \in BOOLEAN
    /\ pc = "import"
    /\ mi = 1
    /\ classes_ = <<>>
    /\ results = <<>>
    /\ processed_classes = {}
    /\ nw_class_name = ""
    /\ nw_methods = <<>>
    /\ backend_methods = <<>>
    /\ docs = [f \in {} |-> 0]
    /\ writes = <<>>
    /\ error = ""

\* The exception leaves get_backend_completeness_table: the run ends.
Raise(exception) ==
    /\ pc' = "aborted"
    /\ error' = exception

\* render_table_and_write_to_output, when nothing raises.
WriteDocument(frames, title, output_filename, whole_module) ==
    /\ docs' = (output_filename :> Document(frames, title)) @@ docs
    /\ writes' = Append(writes, [mi |-> mi, file |-> output_filename,
                                 aggregate |-> whole_module])

\* Lines 145-155: the next registry entry's canonical module is imported and
\* its classes listed.
ImportModule ==
    /\ pc = "import"
    /\ lib.canon[module_name].found
    /\ classes_' = GetMembers(lib.canon[module_name].classes)
    /\ results' = <<>>
    /\ processed_classes' = {}
    /\ nw_class_name' = ""
    /\ nw_methods' = <<>>
    /\ backend_methods' = <<>>
    /\ pc' = "class"
    /\ UNCHANGED <<lib, template_exists, mi, docs, writes, error>>

\* Faulty variant: the canonical import is suppressed like a backend's, and
\* the loop goes on with the next registry entry.
ImportModuleSuppressed ==
    /\ pc = "import"
    /\ ~lib.canon[module_name].found
    /\ IF mi < Len(MODULES)
       THEN mi' = mi + 1 /\ pc' = "import"
       ELSE mi' = mi /\ pc' = "done"
    /\ UNCHANGED <<lib, template_exists, classes_, results, processed_classes,
                   nw_class_name, nw_methods, backend_methods, docs, writes, error>>

\* Line 151 raises ModuleNotFoundError.
ImportModuleFails ==
    /\ pc = "import"
    /\ ~lib.canon[module_name].found
    /\ Raise("ModuleNotFoundError")
    /\ UNCHANGED <<lib, template_exists, mi, classes_, results, processed_classes,
                   nw_class_name, nw_methods, backend_methods, docs, writes>>

\* Lines 158-159.
SkipExcludedClass ==
    /\ pc = "class"
    /\ classes_ # <<>>
    /\ Head(classes_) \in EXCLUDE_CLASSES
    /\ classes_' = Tail(classes_)
    /\ UNCHANGED <<lib, template_exists, pc, mi, results, processed_classes,
                   nw_class_name, nw_methods, backend_methods, docs, writes, error>>

\* Lines 161-163.
CanonicalMethods(name) == get_class_methods(lib.canon[module_name].classes[name])

\* Lines 165-178.
BackendFrames(name) ==
    [i \in 1..Len(BACKENDS) |->
        DataFrame(BACKENDS[i].name, parse_module(module_name, BACKENDS[i].module, name))]

\* [narwhals, *backend_methods]
ClassFrames(name) ==
    <<DataFrame("narwhals", CanonicalMethods(name))>> \o BackendFrames(name)

\* Lines 161-180, common to every class that is not excluded.
Collect(name) ==
    /\ nw_class_name' = name
    /\ nw_methods' = CanonicalMethods(name)
    /\ backend_methods' = BackendFrames(name)
    /\ results' = results \o ClassFrames(name)
    /\ classes_' = Tail(classes_)

\* Lines 161-188 for DataFrame and LazyFrame: collected and rendered on its own.
VisitFrameClass ==
    /\ pc = "class"
    /\ classes_ # <<>>
    /\ Head(classes_) \notin EXCLUDE_CLASSES
    /\ Head(classes_) \in FRAME_CLASSES
    /\ RenderError(ClassFrames(Head(classes_))) = ""
    /\ Collect(Head(classes_))
    /\ WriteDocument(ClassFrames(Head(classes_)), Head(classes_),
                     Lower(Head(classes_)), FALSE)
    /\ processed_classes' = processed_classes \cup {Head(classes_)}
    /\ UNCHANGED <<lib, template_exists, pc, mi, error>>

\* The same, with render_table_and_write_to_output raising.
VisitFrameClassFails ==
    /\ pc = "class"
    /\ classes_ # <<>>
    /\ Head(classes_) \notin EXCLUDE_CLASSES
    /\ Head(classes_) \in FRAME_CLASSES
    /\ RenderError(ClassFrames(Head(classes_))) # ""
    /\ Collect(Head(classes_))
    /\ Raise(RenderError(ClassFrames(Head(classes_))))
    /\ UNCHANGED <<lib, template_exists, mi, processed_classes, docs, writes>>

\* Lines 161-180 for any other class: collected only.
VisitOtherClass ==
    /\ pc = "class"
    /\ classes_ # <<>>
    /\ Head(classes_) \notin EXCLUDE_CLASSES
    /\ Head(classes_) \notin FRAME_CLASSES
    /\ Collect(Head(classes_))
    /\ UNCHANGED <<lib, template_exists, pc, mi, processed_classes, docs, writes, error>>

\* The for loop over MODULES moves on, or ends.
NextModule ==
    IF mi < Len(MODULES)
    THEN mi' = mi + 1 /\ pc' = "import"
    ELSE mi' = mi /\ pc' = "done"

\* Line 190: whether the module's aggregate document is skipped.
SkipsAggregate == processed_classes = {"DataFrame", "LazyFrame"}

\* Lines 190-191.
FinishModuleSkip ==
    /\ pc = "class"
    /\ classes_ = <<>>
    /\ SkipsAggregate
    /\ NextModule
    /\ UNCHANGED <<lib, template_exists, classes_, results, processed_classes,
                   nw_class_name, nw_methods, backend_methods, docs, writes, error>>

\* Lines 193-197.
FinishModuleRender ==
    /\ pc = "class"
    /\ classes_ = <<>>
    /\ ~SkipsAggregate
    /\ RenderError(results) = ""
    /\ WriteDocument(results, CapitalizeReplace(module_name), module_name, TRUE)
    /\ NextModule
    /\ UNCHANGED <<lib, template_exists, classes_, results, processed_classes,
                   nw_class_name, nw_methods, backend_methods, error>>

\* Lines 193-197, with render_table_and_write_to_output raising.
FinishModuleFails ==
    /\ pc = "class"
    /\ classes_ = <<>>
    /\ ~SkipsAggregate
    /\ RenderError(results) # ""
    /\ Raise(RenderError(results))
    /\ UNCHANGED <<lib, template_exists, mi, classes_, results, processed_classes,
                   nw_class_name, nw_methods, backend_methods, docs, writes>>

Next ==
    \/ ImportModule
    \/ ImportModuleFails
    \/ SkipExcludedClass
    \/ VisitFrameClass
    \/ VisitFrameClassFails
    \/ VisitOtherClass
    \/ FinishModuleSkip
    \/ FinishModuleRender
    \/ FinishModuleFails

Spec == Init /\ [][Next]_vars

-----------------------------------------------------------------------------
(* Vocabulary of the properties.                                           *)

LastWrite == writes[Len(writes)]

\* A class has been visited in the module being processed: nw_class_name,
\* nw_methods and backend_methods are those of that class.
Visited == pc = "class" /\ nw_class_name # ""

\* The file written last is the document of the frame class visited last.
ClassDocWritten ==
    /\ Visited
    /\ nw_class_name \in FRAME_CLASSES
    /\ writes # <<>>
    /\ LastWrite.mi = mi
    /\ ~LastWrite.aggregate
    /\ LastWrite.file = Lower(nw_class_name)

\* The file written last is a module's aggregate document, and results still
\* holds the frames it was rendered from.
AggregateDocWritten ==
    /\ writes # <<>>
    /\ LastWrite.aggregate
    /\ \/ pc = "import" /\ LastWrite.mi = mi - 1
       \/ pc = "done" /\ LastWrite.mi = mi

DocWritten == ClassDocWritten \/ AggregateDocWritten

\* The document written last, the registry entry it belongs to, the frames it
\* was rendered from and the classes those frames come from.
LastDoc == docs[LastWrite.file]

LastTable == LastDoc.backend_table

LastModule == MODULES[LastWrite.mi]

LastFrames ==
    IF LastWrite.aggregate
    THEN results
    ELSE <<DataFrame("narwhals", nw_methods)>> \o backend_methods

LastClasses ==
    IF LastWrite.aggregate
    THEN DOMAIN lib.canon[LastModule].classes \ EXCLUDE_CLASSES
    ELSE {nw_class_name}

BackendIds == 1..Len(BACKENDS)

BackendNames == {BACKENDS[i].name : i \in BackendIds}

\* The backend's module of the same name as registry entry m.
BackendModule(i, m) == lib.back[BACKENDS[i].module][m]

\* The names parse_module returned for the class visited last.
Parsed(i) == {backend_methods[i][k].Method : k \in 1..Len(backend_methods[i])}

\* The names parse_module returns for class c of registry entry m.
ParsedFor(m, i, c) == Elems(parse_module(m, BACKENDS[i].module, c))

CanonicalOf(m, c) == Elems(get_class_methods(lib.canon[m].classes[c]))

Columns(t) == Elems(t.columns)

RowMethods(t) == {t.rows[k]["Method"] : k \in 1..Len(t.rows)}

RowOf(t, method) == t.rows[CHOOSE k \in 1..Len(t.rows) : t.rows[k]["Method"] = method]

\* The backends that contribute at least one row to the frames.
Contributors(frames) ==
    {Concat(frames)[k].Backend : k \in 1..Len(Concat(frames))} \ {"narwhals"}

\* The names parse_module adds whatever reflection finds.
AlwaysAdded(m) ==
    Elems(DIRECTLY_IMPLEMENTED_METHODS)
    \cup (IF m = "expr_str" THEN Elems(EXPR_STR_METHODS) ELSE {})

\* The classes of a backend module that pass parse_module's predicate.
Matching(module_, c) == {n \in DOMAIN module_.classes : ClassPredicate(n, c)}

\* The first of them in ascending name order.
FirstMatching(module_, c) ==
    CHOOSE n \in Matching(module_, c) : \A o \in Matching(module_, c) \ {n} : StrLess(n, o)

\* The public members of a class that are not placeholders.
Implemented(cls) == {n \in DOMAIN cls : ~StartsWith(n, "_") /\ cls[n] # NOT_IMPLEMENTED}

\* The public members of a class that are placeholders.
Placeholders(cls) == {n \in DOMAIN cls : ~StartsWith(n, "_") /\ cls[n] = NOT_IMPLEMENTED}

-----------------------------------------------------------------------------
(* C1 *)

\* C1 as stated: in every document written, a name M that parse_module returns
\* for (C, B) has a row only if M is in get_class_methods(C).
C1_AsStated ==
    DocWritten =>
        \A c \in LastClasses : \A i \in BackendIds :
            \A method \in ParsedFor(LastModule, i, c) :
                method \in RowMethods(LastTable) => method \in CanonicalOf(LastModule, c)

\* C1, amended: in every document written, the rows are exactly the names in
\* get_class_methods of some class the document covers; a name parse_module
\* returns for (C, B) has a row if and only if it is such a name (for the
\* document of one class: if and only if it is in get_class_methods(C)).
C1_CanonicalFilter ==
    DocWritten =>
        /\ RowMethods(LastTable) =
              UNION {CanonicalOf(LastModule, c) : c \in LastClasses}
        /\ \A c \in LastClasses : \A i \in BackendIds :
              \A method \in ParsedFor(LastModule, i, c) :
                  method \in RowMethods(LastTable)
                      <=> \E d \in LastClasses : method \in CanonicalOf(LastModule, d)

\* A document was written for which a backend returned one name that is
\* canonical and one that is not.
C1_Witness ==
    /\ DocWritten
    /\ \E c \in LastClasses : \E i \in BackendIds :
          /\ ParsedFor(LastModule, i, c) \cap RowMethods(LastTable) # {}
          /\ ParsedFor(LastModule, i, c) \ RowMethods(LastTable) # {}

(* C2 *)

C3_AsStated ==
    DocWritten =>
        \A i \in BackendIds :
            ~BackendModule(i, LastModule).found =>
                /\ BACKENDS[i].name \in Columns(LastTable)
                /\ \A k \in 1..Len(LastTable.rows) :
                      LastTable.rows[k][BACKENDS[i].name] = CROSS

\* C3, amended: when a backend's module does not exist, parse_module returns
\* the empty list, no exception is raised (ModuleNotFoundError ends the run
\* only for a canonical module), and the documents of that registry entry
\* have no column for that backend.
C3_MissingBackendModule ==
    /\ error = "ModuleNotFoundError" => ~lib.canon[module_name].found
    /\ Visited =>
          \A i \in BackendIds :
              ~BackendModule(i, module_name).found => backend_methods[i] = <<>>
    /\ DocWritten =>
          \A i \in BackendIds :
              ~BackendModule(i, LastModule).found =>
                  BACKENDS[i].name \notin Columns(LastTable)

\* A document was written for a registry entry that one backend has no module
\* for and the other has.
C3_Witness ==
    /\ DocWritten
    /\ error = ""
    /\ \E i \in BackendIds : ~BackendModule(i, LastModule).found
    /\ \E i \in BackendIds : BACKENDS[i].name \in Columns(LastTable)

(* C4 *)

\* C4 as stated: for expr_str, tail and head are in what parse_module returns
\* for every backend.
C4_AsStated ==
    (Visited /\ module_name = "expr_str") =>
        \A i \in BackendIds : Elems(EXPR_STR_METHODS) \subseteq Parsed(i)

\* C4, amended: for expr_str, tail and head are in what parse_module returns
\* for every backend whose expr_str module exists and holds a class that
\* passes the predicate, whatever that class's members are; for any other
\* backend parse_module returns the empty list.
C4_ExprStrMethods ==
    (Visited /\ module_name = "expr_str") =>
        \A i \in BackendIds :
            IF /\ BackendModule(i, module_name).found
               /\ Matching(BackendModule(i, module_name), nw_class_name) # {}
            THEN Elems(EXPR_STR_METHODS) \subseteq Parsed(i)
            ELSE backend_methods[i] = <<>>

\* expr_str, a backend class with no public member at all: tail and head are
\* returned all the same.
C4_Witness ==
    /\ Visited
    /\ module_name = "expr_str"
    /\ \E i \in BackendIds :
          /\ BackendModule(i, module_name).found
          /\ Matching(BackendModule(i, module_name), nw_class_name) # {}
          /\ Implemented(BackendModule(i, module_name).classes[
                 FirstMatching(BackendModule(i, module_name), nw_class_name)]) = {}
          /\ Elems(EXPR_STR_METHODS) \subseteq Parsed(i)

(* C5 *)

\* Registry entry i has been processed to its end without an exception.
Finished(i) == i < mi \/ pc = "done"

AggregateWritten(i) == \E k \in 1..Len(writes) : writes[k].mi = i /\ writes[k].aggregate

NonExcluded(i) == DOMAIN lib.canon[MODULES[i]].classes \ EXCLUDE_CLASSES

\* C5 as stated: for every module processed, the aggregate document is skipped
\* if and only if the module's non-excluded classes are exactly DataFrame and
\* LazyFrame; in every other case it is written.
C5_AsStated ==
    \A i \in 1..Len(MODULES) :
        Finished(i) => (~AggregateWritten(i) <=> NonExcluded(i) = FRAME_CLASSES)

(* C6 *)

\* C6: in every document, every row has the present marker in the polars
\* column.
C6_ReferenceColumn ==
    \A f \in DOMAIN docs :
        /\ "polars" \in Columns(docs[f].backend_table)
        /\ \A k \in 1..Len(docs[f].backend_table.rows) :
              docs[f].backend_table.rows[k]["polars"] = CHECK

\* A document with a row that a backend does not support.
C6_Witness ==
    \E f \in DOMAIN docs :
        \E k \in 1..Len(docs[f].backend_table.rows) :
            /\ docs[f].backend_table.rows[k]["polars"] = CHECK
            /\ \E c \in Columns(docs[f].backend_table) :
                  docs[f].backend_table.rows[k][c] = CROSS

(* C7 *)

\* The document written last covers one class only.
SingleClassDoc == DocWritten /\ Cardinality(LastClasses) = 1

\* C7 as stated: in a document built from one class C, for every method M of
\* get_class_methods(C) and every registered backend B, the cell (M, B) shows
\* the present marker if M is in parse_module's result for (C, B) and the
\* unsupported marker otherwise.
C7_AsStated ==
    SingleClassDoc =>
        \A c \in LastClasses : \A method \in CanonicalOf(LastModule, c) :
            \A i \in BackendIds :
                /\ method \in RowMethods(LastTable)
                /\ BACKENDS[i].name \in Columns(LastTable)
                /\ RowOf(LastTable, method)[BACKENDS[i].name] =
                      IF method \in ParsedFor(LastModule, i, c) THEN CHECK ELSE CROSS

\* C7, amended: the same for every registered backend B for which
\* parse_module's result for (C, B) is not empty; a backend for which it is
\* empty has no column in the document.
C7_Cells ==
    SingleClassDoc =>
        \A c \in LastClasses : \A method \in CanonicalOf(LastModule, c) :
            /\ method \in RowMethods(LastTable)
            /\ \A i \in BackendIds :
                  IF ParsedFor(LastModule, i, c) = {}
                  THEN BACKENDS[i].name \notin Columns(LastTable)
                  ELSE /\ BACKENDS[i].name \in Columns(LastTable)
                       /\ RowOf(LastTable, method)[BACKENDS[i].name] =
                             IF method \in ParsedFor(LastModule, i, c)
                             THEN CHECK ELSE CROSS

\* A document of one class in which a backend supports one canonical method
\* and not another.
C7_Witness ==
    /\ SingleClassDoc
    /\ \E i \in BackendIds :
          /\ BACKENDS[i].name \in Columns(LastTable)
          /\ \E k, j \in 1..Len(LastTable.rows) :
                /\ LastTable.rows[k][BACKENDS[i].name] = CHECK
                /\ LastTable.rows[j][BACKENDS[i].name] = CROSS

(* C8 *)

\* parse_module reflects on a class of backend i for the class visited last.
HasReflected(i) ==
    /\ BackendModule(i, module_name).found
    /\ Matching(BackendModule(i, module_name), nw_class_name) # {}

Reflected(i) ==
    BackendModule(i, module_name).classes[
        FirstMatching(BackendModule(i, module_name), nw_class_name)]

\* C8 as stated: a public member that the backend's class marks not_implemented
\* is never in what parse_module returns for that backend and class.
C8_AsStated ==
    Visited =>
        \A i \in BackendIds :
            HasReflected(i) => Placeholders(Reflected(i)) \cap Parsed(i) = {}

\* C8, amended: such a member is in what parse_module returns only if its name
\* is one parse_module always adds (DIRECTLY_IMPLEMENTED_METHODS, and
\* EXPR_STR_METHODS for expr_str); under any other name, its cell in the
\* class's own document shows unsupported for that backend.
C8_Placeholders ==
    Visited =>
        \A i \in BackendIds :
            HasReflected(i) =>
                \A n \in Placeholders(Reflected(i)) :
                    /\ n \in Parsed(i) => n \in AlwaysAdded(module_name)
                    /\ (/\ ClassDocWritten
                        /\ n \notin AlwaysAdded(module_name)
                        /\ n \in Elems(nw_methods))
                       => RowOf(LastTable, n)[BACKENDS[i].name] = CROSS

\* A frame class's document in which a canonical method is a placeholder of
\* the backend's class.
C8_Witness ==
    /\ ClassDocWritten
    /\ \E i \in BackendIds :
          /\ HasReflected(i)
          /\ \E n \in Placeholders(Reflected(i)) \ AlwaysAdded(module_name) :
                /\ n \in Elems(nw_methods)
                /\ RowOf(LastTable, n)[BACKENDS[i].name] = CROSS

(* C9 *)

\* C9: a canonical module that cannot be imported ends the run there with
\* ModuleNotFoundError: the loop never passes that registry entry and nothing
\* is written for it or a later one.  Without the template file nothing is
\* ever written and the run does not complete.  After an exception no further
\* step is taken.
C9_FatalConfigurationError ==
    /\ \A i \in 1..Len(MODULES) :
          ~lib.canon[MODULES[i]].found =>
              /\ mi <= i
              /\ \A k \in 1..Len(writes) : writes[k].mi < i
              /\ (mi = i /\ pc # "import") =>
                    (pc = "aborted" /\ error = "ModuleNotFoundError")
    /\ ~template_exists => (writes = <<>> /\ pc # "done")
    /\ pc = "aborted" <=> error # ""
    /\ pc = "aborted" => ~ENABLED Next

\* The second registry entry's canonical module is missing: the run ended
\* there, with the first entry's documents written.
C9_Witness ==
    /\ pc = "aborted"
    /\ error = "ModuleNotFoundError"
    /\ mi = 2
    /\ writes # <<>>
    /\ \A k \in 1..Len(writes) : writes[k].mi = 1

(* C10 *)

\* C10: when several classes of a backend module pass the predicate,
\* parse_module reflects on the first in ascending name order only: it returns
\* that class's implemented public members and the names it always adds, and
\* nothing from the other classes.
C10_FirstMatchingClass ==
    Visited =>
        \A i \in BackendIds :
            HasReflected(i) =>
                Parsed(i) = Implemented(Reflected(i)) \cup AlwaysAdded(module_name)

\* Two classes pass the predicate and the second implements a method that the
\* first does not: the method is not returned.
C10_Witness ==
    /\ Visited
    /\ \E i \in BackendIds :
          /\ HasReflected(i)
          /\ \E o \in Matching(BackendModule(i, module_name), nw_class_name) :
                /\ o # FirstMatching(BackendModule(i, module_name), nw_class_name)
                /\ \E n \in Implemented(BackendModule(i, module_name).classes[o]) :
                      n \notin Parsed(i)

====
